---- MODULE Spec2Model ----
(***************************************************************************)
(* Model of the scaled-UI-amount authorization proxy (src/src/*.rs).       *)
(*                                                                         *)
(* The persistent state is the data of the account at the state PDA.  One  *)
(* step is one invocation of Processor::process with a decoded             *)
(* instruction and a list of accounts; the invocation is atomic: its       *)
(* writes are kept only when it returns Ok.  Every invocation records the  *)
(* request, the data before it, its result and the cross-program calls it  *)
(* issued, so that the properties below are statements about one           *)
(* invocation and the state it ran in.                                     *)
(***************************************************************************)
EXTENDS Integers, Sequences, FiniteSets, TLC

VARIABLES
  state_data,   \* the data of the account at the state PDA (empty: not created)
  pre_data,     \* state_data when the last invocation started
  last_instruction,  \* the last invocation's decoded ProxyInstruction
  last_accounts,     \* the last invocation's accounts, in order
  last_host,         \* the host's answers to the calls the last invocation issued
  last_result,       \* the last invocation's ProgramResult
  last_invoked,      \* the cross-program calls the last invocation issued
  last_rotation      \* <<A, B>> once UpdateAuthority(signer = A, new_authority = B)
                     \* has succeeded on the state PDA (the latest one), else <<>>

vars == <<state_data, pre_data, last_instruction, last_accounts, last_host,
          last_result, last_invoked, last_rotation>>

(* Bounds of the model: how many distinct user and mint identities occur. *)
MaxUsers == 2
MaxMints == 2

-----------------------------------------------------------------------------
(* Identities.  A Pubkey is 32 bytes.                                      *)

Pubkey(i) == [j \in 1..32 |-> i]

(* Pubkey::default(): the all-zero identity (processor.rs:214) *)
Pubkey_default == Pubkey(0)

Users == {Pubkey(i) : i \in 1..MaxUsers}
Mints == {Pubkey(64 + i) : i \in 1..MaxMints}

PROGRAM_ID == Pubkey(160)
SYSTEM_PROGRAM_ID == Pubkey_default

(* base58 "TokenzQdBNbLqP5VEhdkAS6EPFLC1PHnBqCXEpPxuEb" *)
TOKEN_2022_PROGRAM_ID ==
  <<6, 221, 246, 225, 238, 117, 143, 222, 24, 66, 93, 188, 228, 108, 205, 218,
    182, 26, 252, 77, 131, 185, 13, 39, 254, 189, 249, 40, 216, 161, 139, 252>>

STATE_SEED == "state"
AUTHORITY_SEED == "proxy_authority"

(* ProxyState::LEN = 1 + 32 + 32 + 1 *)
LEN == 1 + 32 + 32 + 1

(* Pubkey::find_program_address(&[seed], program_id): a fixed address and  *)
(* bump per seed and program.  The hash is not modelled; the two seeds     *)
(* derive two distinct addresses, neither of them a user's or a mint's.    *)
find_program_address(seed, program_id) ==
  IF program_id = PROGRAM_ID /\ seed = STATE_SEED
    THEN [key |-> Pubkey(128), bump |-> 254]
  ELSE IF program_id = PROGRAM_ID /\ seed = AUTHORITY_SEED
    THEN [key |-> Pubkey(129), bump |-> 253]
  ELSE [key |-> Pubkey(191), bump |-> 255]

StatePda == find_program_address(STATE_SEED, PROGRAM_ID).key
AuthorityPda == find_program_address(AUTHORITY_SEED, PROGRAM_ID).key
AuthorityBump == find_program_address(AUTHORITY_SEED, PROGRAM_ID).bump

(* An account that is not the state PDA and is not owned by this program:  *)
(* whoever owns it chooses its data.                                       *)
OtherAccount == Pubkey(130)
(* An address that is not the authority PDA. *)
OtherPda == Pubkey(131)

-----------------------------------------------------------------------------
(* Results.  ProgramResult is Ok(()) or Err(ProgramError).                 *)

Ok == [tag |-> "Ok", code |-> 0]
Err(tag) == [tag |-> tag, code |-> 0]

(* impl From<ProxyError> for ProgramError: Custom(e as u32) *)
Custom(e) == [tag |-> "Custom", code |-> e]

NotInitialized == Custom(0)
AlreadyInitialized == Custom(1)
InvalidAuthority == Custom(2)
InvalidMultiplier == Custom(3)
InvalidMint == Custom(4)
InvalidStateAccount == Custom(5)
InvalidPDA == Custom(6)

MissingRequiredSignature == Err("MissingRequiredSignature")
NotEnoughAccountKeys == Err("NotEnoughAccountKeys")
BorshIoError == Err("BorshIoError")
(* the host refused a cross-program call, or refused to commit a write *)
CpiFailed == Err("CpiFailed")
ExternalAccountDataModified == Err("ExternalAccountDataModified")

-----------------------------------------------------------------------------
(* Borsh encoding of ProxyState (state.rs:5-15): bool, Pubkey, Pubkey, u8. *)

Zeros(n) == [j \in 1..n |-> 0]

ProxyState_serialize(s) ==
  <<IF s.initialized THEN 1 ELSE 0>> \o s.authority \o s.token_mint \o <<s.bump>>

(* Variant: the identities read one byte too early. *)
ProxyState_try_from_slice_shifted(buf) ==
  IF Len(buf) # LEN \/ buf[1] \notin {0, 1} THEN [ok |-> FALSE]
  ELSE [ok |-> TRUE,
        state |-> [initialized |-> buf[1] = 1,
                   authority |-> SubSeq(buf, 1, 32),
                   token_mint |-> SubSeq(buf, 33, 64),
                   bump |-> buf[66]]]

(* ProxyState::try_from_slice: the fields in order, a bool byte must be 0  *)
(* or 1, and no byte may be left over.                                     *)
ProxyState_try_from_slice(buf) ==
  IF Len(buf) < 1 THEN [ok |-> FALSE]
  ELSE IF buf[1] \notin {0, 1} THEN [ok |-> FALSE]
  ELSE IF Len(buf) < LEN THEN [ok |-> FALSE]
  ELSE IF Len(buf) > LEN THEN [ok |-> FALSE]
  ELSE [ok |-> TRUE,
        state |-> [initialized |-> buf[1] = 1,
                   authority |-> SubSeq(buf, 2, 33),
                   token_mint |-> SubSeq(buf, 34, 65),
                   bump |-> buf[66]]]

(* state.serialize(&mut *state_info.data.borrow_mut()): io::Write for      *)
(* &mut [u8] overwrites the front of the buffer and fails when the buffer  *)
(* is too short.                                                           *)
WriteInto(buf, bytes) ==
  IF Len(buf) < Len(bytes) THEN [ok |-> FALSE]
  ELSE [ok |-> TRUE, data |-> bytes \o SubSeq(buf, Len(bytes) + 1, Len(buf))]

-----------------------------------------------------------------------------
(* f64 and i64.  An f64 is its IEEE-754 fields: a sign bit, an 11-bit      *)
(* exponent and a 52-bit fraction held as 20 + 16 + 16 bits.               *)

F64(sign, exponent, hi, mid, lo) ==
  [sign |-> sign, exponent |-> exponent, hi |-> hi, mid |-> mid, lo |-> lo]

is_sign_positive(x) == x.sign = 0
is_normal(x) == x.exponent # 0 /\ x.exponent # 2047

(* f64::to_le_bytes *)
f64_to_le_bytes(x) ==
  << x.lo % 256, x.lo \div 256,
     x.mid % 256, x.mid \div 256,
     x.hi % 256, (x.hi \div 256) % 256,
     (x.exponent % 16) * 16 + (x.hi \div 65536),
     x.sign * 128 + (x.exponent \div 16) >>

(* n little-endian bytes of a two's-complement integer *)
RECURSIVE to_le_bytes(_, _)
to_le_bytes(v, n) ==
  IF n = 0 THEN <<>> ELSE <<v % 256>> \o to_le_bytes(v \div 256, n - 1)

(* i64::to_le_bytes *)
i64_to_le_bytes(v) == to_le_bytes(v, 8)

-----------------------------------------------------------------------------
(* token_2022_helpers.rs *)

TokenInstruction_ScaledUiAmountExtension == 43
ScaledUiAmountMintInstruction_UpdateMultiplier == 1

(* AccountMeta::new(pubkey, is_signer) / AccountMeta::new_readonly *)
AccountMeta_new(pubkey, is_signer) ==
  [pubkey |-> pubkey, is_signer |-> is_signer, is_writable |-> TRUE]
AccountMeta_new_readonly(pubkey, is_signer) ==
  [pubkey |-> pubkey, is_signer |-> is_signer, is_writable |-> FALSE]

(* Variant: the timestamp written before the multiplier. *)
instruction_data_reordered(multiplier, effective_timestamp) ==
  <<TokenInstruction_ScaledUiAmountExtension,
    ScaledUiAmountMintInstruction_UpdateMultiplier>>
    \o i64_to_le_bytes(effective_timestamp)
    \o f64_to_le_bytes(multiplier)

(* The payload of the delegated call (token_2022_helpers.rs:43-49). *)
instruction_data(multiplier, effective_timestamp) ==
  <<TokenInstruction_ScaledUiAmountExtension,
    ScaledUiAmountMintInstruction_UpdateMultiplier>>
    \o f64_to_le_bytes(multiplier)
    \o i64_to_le_bytes(effective_timestamp)

(* Variant: the two account references built with each other's roles. *)
update_multiplier_roles_swapped(mint, authority, multiplier, effective_timestamp) ==
  [program_id |-> TOKEN_2022_PROGRAM_ID,
   accounts |-> <<AccountMeta_new_readonly(mint, TRUE),
                  AccountMeta_new(authority, FALSE)>>,
   data |-> instruction_data(multiplier, effective_timestamp)]

update_multiplier(mint, authority, multiplier, effective_timestamp) ==
  [program_id |-> TOKEN_2022_PROGRAM_ID,
   accounts |-> <<AccountMeta_new(mint, FALSE),
                  AccountMeta_new_readonly(authority, TRUE)>>,
   data |-> instruction_data(multiplier, effective_timestamp)]

-----------------------------------------------------------------------------
(* The host, as far as the handlers call it.                               *)

(* rent.minimum_balance(space): a host value, kept symbolic *)
Rent_minimum_balance(space) == [rent_exempt_minimum_for |-> space]

(* system_instruction::create_account(from, to, lamports, space, owner) *)
system_instruction_create_account(from, to, lamports, space, owner) ==
  [program_id |-> SYSTEM_PROGRAM_ID,
   accounts |-> <<AccountMeta_new(from, TRUE), AccountMeta_new(to, TRUE)>>,
   data |-> [lamports |-> lamports, space |-> space, owner |-> owner]]

(* invoke_signed: the call as the program hands it to the host. *)
Invocation(instruction, account_infos, signers_seeds) ==
  [instruction |-> instruction, account_infos |-> account_infos,
   signers_seeds |-> signers_seeds]

(* The system program's answer to create_account: it refuses an account    *)
(* that is already in use; otherwise the host decides (the payer's         *)
(* balance, the balance of the new address): host_ok.  On success the new  *)
(* account holds `space` zero bytes.                                       *)
create_account_result(to_data, space, host_ok) ==
  IF Len(to_data) > 0 \/ ~host_ok
    THEN [ok |-> FALSE]
    ELSE [ok |-> TRUE, data |-> Zeros(space)]

-----------------------------------------------------------------------------
(* processor.rs.  A handler's outcome: its result, the data buffer of the  *)
(* account in the state position when it returns, and the calls it issued. *)

Outcome(result, data, invoked) ==
  [result |-> result, data |-> data, invoked |-> invoked]

Fail(error) == Outcome(error, <<>>, <<>>)

(* Variant: the test `multiplier > 0.0`, which lets subnormals and         *)
(* +infinity through.                                                      *)
try_validate_multiplier_gt_zero(multiplier) ==
  IF multiplier.sign = 0
     /\ ~(multiplier.exponent = 2047
          /\ (multiplier.hi # 0 \/ multiplier.mid # 0 \/ multiplier.lo # 0))
     /\ ~(multiplier.exponent = 0 /\ multiplier.hi = 0
          /\ multiplier.mid = 0 /\ multiplier.lo = 0)
    THEN Ok
    ELSE InvalidMultiplier

(* processor.rs:228-234 *)
try_validate_multiplier(multiplier) ==
  IF is_sign_positive(multiplier) /\ is_normal(multiplier)
    THEN Ok
    ELSE InvalidMultiplier

(* Variant: the data_len() test inverted. *)
check_already_initialized_inverted(state_info) ==
  IF Len(state_info.data) > 0 THEN Ok ELSE AlreadyInitialized

(* Variant: the already-initialized check left out. *)
check_already_initialized_skipped(state_info) == Ok

(* processor.rs:78-84: the already-initialized check of Initialize *)
check_already_initialized(state_info) ==
  IF Len(state_info.data) > 0
    THEN LET decoded == ProxyState_try_from_slice(state_info.data)
         IN  IF ~decoded.ok THEN BorshIoError
             ELSE IF decoded.state.initialized THEN AlreadyInitialized
             ELSE Ok
    ELSE Ok

(* Variant: the authority and the mint stored in each other's field. *)
initial_state_swapped(authority, token_mint, authority_bump) ==
  [initialized |-> TRUE,
   authority |-> token_mint,
   token_mint |-> authority,
   bump |-> authority_bump]

(* processor.rs:105-111: the record Initialize writes *)
initial_state(authority, token_mint, authority_bump) ==
  [initialized |-> TRUE,
   authority |-> authority,
   token_mint |-> token_mint,
   bump |-> authority_bump]

process_initialize(program_id, accounts, authority, host) ==
  IF Len(accounts) < 5 THEN Fail(NotEnoughAccountKeys)
  ELSE
  LET payer_info == accounts[1]
      state_info == accounts[2]
      authority_pda_info == accounts[3]
      token_mint_info == accounts[4]
      system_program_info == accounts[5]
      state_pda == find_program_address(STATE_SEED, program_id)
      authority_pda == find_program_address(AUTHORITY_SEED, program_id)
  IN
  IF ~payer_info.is_signer THEN Fail(MissingRequiredSignature)
  ELSE IF state_pda.key # state_info.key THEN Fail(InvalidStateAccount)
  ELSE IF authority_pda.key # authority_pda_info.key THEN Fail(InvalidPDA)
  ELSE IF check_already_initialized(state_info) # Ok
    THEN Fail(check_already_initialized(state_info))
  ELSE
  LET space == LEN
      lamports == Rent_minimum_balance(space)
      create_account_ix ==
        system_instruction_create_account(
          payer_info.key, state_info.key, lamports, space, program_id)
      call == Invocation(create_account_ix,
                         <<payer_info.key, state_info.key, system_program_info.key>>,
                         <<STATE_SEED, <<state_pda.bump>>>>)
      created == create_account_result(state_info.data, space, host.create_account_ok)
  IN
  IF ~created.ok THEN Outcome(CpiFailed, <<>>, <<call>>)
  ELSE
  LET state == initial_state(authority, token_mint_info.key, authority_pda.bump)
      written == WriteInto(created.data, ProxyState_serialize(state))
  IN
  IF ~written.ok THEN Outcome(BorshIoError, <<>>, <<call>>)
  ELSE Outcome(Ok, written.data, <<call>>)

(* Variant: the authority comparison left out. *)
authority_matches_any(state, authority_info) == TRUE

(* processor.rs:147 and :209: the signer is the stored authority *)
authority_matches(state, authority_info) ==
  state.authority = authority_info.key

(* processor.rs:152: the supplied mint is the stored mint *)
mint_matches(state, token_mint_info) ==
  state.token_mint = token_mint_info.key

(* Variant: the stored bump not compared. *)
pda_matches_key_only(authority_pda, authority_pda_info, state) ==
  authority_pda.key = authority_pda_info.key

(* processor.rs:164: the supplied signing address and the stored bump are  *)
(* the derived ones                                                        *)
pda_matches(authority_pda, authority_pda_info, state) ==
  ~(authority_pda.key # authority_pda_info.key \/ authority_pda.bump # state.bump)

(* Variant: the record written back, with the bump it was signed with     *)
(* cleared, after the delegated call.                                      *)
invoke_update_multiplier_storing(state_info, authority_pda_info, token_mint_info, state, new_multiplier, effective_timestamp, host) ==
  LET update_ix == update_multiplier(token_mint_info.key, authority_pda_info.key,
                                     new_multiplier, effective_timestamp)
      call == Invocation(update_ix,
                         <<token_mint_info.key, authority_pda_info.key>>,
                         <<AUTHORITY_SEED, <<state.bump>>>>)
  IN
  IF ~host.update_multiplier_ok THEN Outcome(CpiFailed, <<>>, <<call>>)
  ELSE Outcome(Ok, ProxyState_serialize([state EXCEPT !.bump = 0]), <<call>>)

(* processor.rs:168-185: build the delegated call, issue it signed for the *)
(* authority PDA, and return; the state buffer is left as it was read.     *)
invoke_update_multiplier(state_info, authority_pda_info, token_mint_info, state, new_multiplier, effective_timestamp, host) ==
  LET update_ix == update_multiplier(token_mint_info.key, authority_pda_info.key,
                                     new_multiplier, effective_timestamp)
      call == Invocation(update_ix,
                         <<token_mint_info.key, authority_pda_info.key>>,
                         <<AUTHORITY_SEED, <<state.bump>>>>)
  IN
  IF ~host.update_multiplier_ok THEN Outcome(CpiFailed, <<>>, <<call>>)
  ELSE Outcome(Ok, state_info.data, <<call>>)

(* Variant: the mint compared before the authority. *)
process_update_multiplier_reordered(program_id, accounts, new_multiplier, effective_timestamp, host) ==
  IF Len(accounts) < 5 THEN Fail(NotEnoughAccountKeys)
  ELSE
  LET authority_info == accounts[1]
      state_info == accounts[2]
      authority_pda_info == accounts[3]
      token_mint_info == accounts[4]
      decoded == ProxyState_try_from_slice(state_info.data)
      state == decoded.state
      authority_pda == find_program_address(AUTHORITY_SEED, program_id)
  IN
  IF ~authority_info.is_signer THEN Fail(MissingRequiredSignature)
  ELSE IF ~decoded.ok THEN Fail(BorshIoError)
  ELSE IF ~state.initialized THEN Fail(NotInitialized)
  ELSE IF ~mint_matches(state, token_mint_info) THEN Fail(InvalidMint)
  ELSE IF ~authority_matches(state, authority_info) THEN Fail(InvalidAuthority)
  ELSE IF try_validate_multiplier(new_multiplier) # Ok
    THEN Fail(try_validate_multiplier(new_multiplier))
  ELSE IF ~pda_matches(authority_pda, authority_pda_info, state)
    THEN Fail(InvalidPDA)
  ELSE invoke_update_multiplier(state_info, authority_pda_info, token_mint_info,
                                state, new_multiplier, effective_timestamp, host)

process_update_multiplier(program_id, accounts, new_multiplier, effective_timestamp, host) ==
  IF Len(accounts) < 5 THEN Fail(NotEnoughAccountKeys)
  ELSE
  LET authority_info == accounts[1]
      state_info == accounts[2]
      authority_pda_info == accounts[3]
      token_mint_info == accounts[4]
      decoded == ProxyState_try_from_slice(state_info.data)
      state == decoded.state
      authority_pda == find_program_address(AUTHORITY_SEED, program_id)
  IN
  IF ~authority_info.is_signer THEN Fail(MissingRequiredSignature)
  ELSE IF ~decoded.ok THEN Fail(BorshIoError)
  ELSE IF ~state.initialized THEN Fail(NotInitialized)
  ELSE IF ~authority_matches(state, authority_info) THEN Fail(InvalidAuthority)
  ELSE IF ~mint_matches(state, token_mint_info) THEN Fail(InvalidMint)
  ELSE IF try_validate_multiplier(new_multiplier) # Ok
    THEN Fail(try_validate_multiplier(new_multiplier))
  ELSE IF ~pda_matches(authority_pda, authority_pda_info, state)
    THEN Fail(InvalidPDA)
  ELSE invoke_update_multiplier(state_info, authority_pda_info, token_mint_info,
                                state, new_multiplier, effective_timestamp, host)

(* Variant: the record rebuilt with the flag left at its default. *)
set_authority_reset(state, new_authority) ==
  [state EXCEPT !.authority = new_authority, !.initialized = FALSE]

(* Variant: the new authority never stored. *)
set_authority_dropped(state, new_authority) == state

(* Variant: the new authority stored in the mint field. *)
set_authority_into_mint(state, new_authority) ==
  [state EXCEPT !.token_mint = new_authority]

(* processor.rs:218-219: the rotation itself *)
set_authority(state, new_authority) ==
  [state EXCEPT !.authority = new_authority]

process_update_authority(program_id, accounts, new_authority) ==
  IF Len(accounts) < 2 THEN Fail(NotEnoughAccountKeys)
  ELSE
  LET authority_info == accounts[1]
      state_info == accounts[2]
      decoded == ProxyState_try_from_slice(state_info.data)
      state == decoded.state
  IN
  IF ~authority_info.is_signer THEN Fail(MissingRequiredSignature)
  ELSE IF ~decoded.ok THEN Fail(BorshIoError)
  ELSE IF ~state.initialized THEN Fail(NotInitialized)
  ELSE IF ~authority_matches(state, authority_info) THEN Fail(InvalidAuthority)
  ELSE IF new_authority = Pubkey_default THEN Fail(InvalidAuthority)
  ELSE
  LET written == WriteInto(state_info.data,
                           ProxyState_serialize(set_authority(state, new_authority)))
  IN
  IF ~written.ok THEN Fail(BorshIoError)
  ELSE Outcome(Ok, written.data, <<>>)

(* Processor::process: the decoded instruction selects the handler. *)
process(program_id, accounts, ix, host) ==
  IF ix.tag = "Initialize"
    THEN process_initialize(program_id, accounts, ix.authority, host)
  ELSE IF ix.tag = "UpdateMultiplier"
    THEN process_update_multiplier(program_id, accounts, ix.new_multiplier,
                                   ix.effective_timestamp, host)
  ELSE process_update_authority(program_id, accounts, ix.new_authority)

-----------------------------------------------------------------------------
(* The invocations.                                                        *)

AccountInfo(key, is_signer, data) ==
  [key |-> key, is_signer |-> is_signer, data |-> data]

(* f64 arguments: +0.0, -0.0, -1.0, a NaN, +infinity, the least positive   *)
(* subnormal, 1.05, 1.0 and 0.5                                            *)
Multipliers ==
  { F64(0, 0, 0, 0, 0), F64(1, 0, 0, 0, 0), F64(1, 1023, 0, 0, 0),
    F64(0, 2047, 524288, 0, 0), F64(0, 2047, 0, 0, 0), F64(0, 0, 0, 0, 1),
    F64(0, 1023, 52428, 52428, 52429), F64(0, 1023, 0, 0, 0),
    F64(0, 1022, 0, 0, 0) }

(* i64 arguments *)
Timestamps == {0, 1700000000, -1}

(* What an account that this program does not own may hold: nothing, LEN   *)
(* zero bytes, one byte too many, a bool byte that is neither 0 nor 1, any *)
(* encoded record, and a record with another bump.                         *)
ForeignData ==
  { <<>>, Zeros(LEN), Zeros(LEN + 1), <<2>> \o Zeros(LEN - 1) }
  \cup { ProxyState_serialize(initial_state(u, m, AuthorityBump)) :
           u \in Users, m \in Mints }
  \cup { ProxyState_serialize(initial_state(Pubkey(1), Pubkey(65), AuthorityBump - 1)) }

(* The data the host hands the program for the account at `key`. *)
AccountData(key, foreign) ==
  IF key = StatePda THEN state_data
  ELSE IF key = OtherAccount THEN foreign
  ELSE <<>>

(* The host's answers when every call the invocation issues is accepted. *)
NoCall == [create_account_ok |-> TRUE, update_multiplier_ok |-> TRUE]

NoInstruction == [tag |-> "None"]

Idle == last_instruction = NoInstruction

(* One invocation: run the handler; the host keeps its writes only when it *)
(* returns Ok, and refuses an invocation that changed the data of an       *)
(* account the program does not own.  The handlers below start one only when  *)
(* none is in progress (Idle): invocations do not overlap.                 *)
Invoke(ix, accs, answers) ==
  LET outcome == process(PROGRAM_ID, accs, ix, answers)
      wrote == outcome.result = Ok /\ Len(accs) >= 2
               /\ outcome.data # accs[2].data
      foreign == wrote /\ accs[2].key # StatePda
  IN  /\ pre_data' = state_data
      /\ last_instruction' = ix
      /\ last_accounts' = accs
      /\ last_host' = answers
      /\ last_invoked' = outcome.invoked
      /\ last_result' = IF foreign THEN ExternalAccountDataModified ELSE outcome.result
      /\ state_data' = IF wrote /\ ~foreign THEN outcome.data ELSE state_data
      /\ last_rotation' =
           IF ix.tag = "UpdateAuthority" /\ outcome.result = Ok
              /\ accs[2].key = StatePda
             THEN <<accs[1].key, ix.new_authority>>
             ELSE last_rotation

Initialize ==
  /\ Idle
  /\ \E payer \in Users, is_signer \in BOOLEAN,
     state_key \in {StatePda, OtherAccount},
     pda_key \in {AuthorityPda, OtherPda},
     mint \in Mints,
     authority \in Users \cup {Pubkey_default},
     n \in {0, 5},
     create_account_ok \in BOOLEAN :
    Invoke([tag |-> "Initialize", authority |-> authority],
           SubSeq(<<AccountInfo(payer, is_signer, <<>>),
                    AccountInfo(state_key, FALSE, AccountData(state_key, <<>>)),
                    AccountInfo(pda_key, FALSE, <<>>),
                    AccountInfo(mint, FALSE, <<>>),
                    AccountInfo(SYSTEM_PROGRAM_ID, FALSE, <<>>)>>, 1, n),
           [NoCall EXCEPT !.create_account_ok = create_account_ok])

UpdateMultiplier ==
  /\ Idle
  /\ \E signer \in Users, is_signer \in BOOLEAN,
     state_key \in {StatePda, OtherAccount},
     foreign \in ForeignData,
     pda_key \in {AuthorityPda, OtherPda},
     mint \in Mints,
     new_multiplier \in Multipliers,
     effective_timestamp \in Timestamps,
     n \in {0, 5},
     update_multiplier_ok \in BOOLEAN :
    Invoke([tag |-> "UpdateMultiplier", new_multiplier |-> new_multiplier,
            effective_timestamp |-> effective_timestamp],
           SubSeq(<<AccountInfo(signer, is_signer, <<>>),
                    AccountInfo(state_key, FALSE, AccountData(state_key, foreign)),
                    AccountInfo(pda_key, FALSE, <<>>),
                    AccountInfo(mint, FALSE, <<>>),
                    AccountInfo(TOKEN_2022_PROGRAM_ID, FALSE, <<>>)>>, 1, n),
           [NoCall EXCEPT !.update_multiplier_ok = update_multiplier_ok])

UpdateAuthority ==
  /\ Idle
  /\ \E signer \in Users, is_signer \in BOOLEAN,
     state_key \in {StatePda, OtherAccount},
     foreign \in ForeignData,
     new_authority \in Users \cup {Pubkey_default},
     n \in {0, 2} :
    Invoke([tag |-> "UpdateAuthority", new_authority |-> new_authority],
           SubSeq(<<AccountInfo(signer, is_signer, <<>>),
                    AccountInfo(state_key, FALSE, AccountData(state_key, foreign))>>,
                  1, n),
           NoCall)

Init ==
  /\ state_data = <<>>
  /\ pre_data = <<>>
  /\ last_instruction = NoInstruction
  /\ last_accounts = <<>>
  /\ last_host = NoCall
  /\ last_result = Ok
  /\ last_invoked = <<>>
  /\ last_rotation = <<>>

(* The invocation is over: the decoded instruction, the account views and  *)
(* the result exist only for its duration; the account data stays.         *)
Return ==
  /\ last_instruction # NoInstruction
  /\ state_data' = state_data
  /\ pre_data' = state_data
  /\ last_instruction' = NoInstruction
  /\ last_accounts' = <<>>
  /\ last_host' = NoCall
  /\ last_result' = Ok
  /\ last_invoked' = <<>>
  /\ last_rotation' = last_rotation

Next == Initialize \/ UpdateMultiplier \/ UpdateAuthority \/ Return

Spec == Init /\ [][Next]_vars

-----------------------------------------------------------------------------
(* Reading the last invocation and the persisted record.                   *)

Last(tag) == last_instruction.tag = tag
Supplied(n) == Len(last_accounts) >= n
SignedByFirst == Supplied(1) /\ last_accounts[1].is_signer
FirstKey == last_accounts[1].key
StateInfo == last_accounts[2]
PdaInfo == last_accounts[3]
MintInfo == last_accounts[4]

(* The persisted layout (spec section 6): 66 bytes, the flag at offset 0,  *)
(* the authority at 1..32, the controlled asset at 33..64, the bump at 65. *)
IsInitialized(data) == Len(data) = 66 /\ data[1] = 1
AuthorityOf(data) == SubSeq(data, 2, 33)
MintOf(data) == SubSeq(data, 34, 65)
BumpOf(data) == data[66]

(* IEEE-754 classes of an f64 *)
IsZero(x) == x.exponent = 0 /\ x.hi = 0 /\ x.mid = 0 /\ x.lo = 0
IsSubnormal(x) == x.exponent = 0 /\ ~IsZero(x)
IsInfinite(x) == x.exponent = 2047 /\ x.hi = 0 /\ x.mid = 0 /\ x.lo = 0
IsNaN(x) == x.exponent = 2047 /\ ~IsInfinite(x)
IsNegative(x) == x.sign = 1
PositiveFiniteNormal(x) == x.sign = 0 /\ x.exponent >= 1 /\ x.exponent <= 2046

(* b is the 8-byte little-endian IEEE-754 image of x *)
IsLeF64(b, x) ==
  /\ Len(b) = 8
  /\ x.lo = b[1] + 256 * b[2]
  /\ x.mid = b[3] + 256 * b[4]
  /\ x.hi = b[5] + 256 * b[6] + 65536 * (b[7] % 16)
  /\ x.exponent = (b[7] \div 16) + 16 * (b[8] % 128)
  /\ x.sign = b[8] \div 128

(* b is the 8-byte little-endian two's-complement image of v, for v that   *)
(* fits 32 bits                                                            *)
IsLeI64(b, v) ==
  /\ Len(b) = 8
  /\ \/ /\ v >= 0
        /\ b[4] < 128 /\ \A i \in 5..8 : b[i] = 0
        /\ v = b[1] + 256 * b[2] + 65536 * b[3] + 16777216 * b[4]
     \/ /\ v < 0
        /\ b[4] >= 128 /\ \A i \in 5..8 : b[i] = 255
        /\ v = b[1] + 256 * b[2] + 65536 * b[3] + 16777216 * (b[4] - 256)

-----------------------------------------------------------------------------
(* C1: a request by a verified signer whose state-record address is not    *)
(* the address derived from the "state" seed fails with                    *)
(* InvalidStateAccount; a request that is otherwise in order and whose     *)
(* signing address is not the derived one fails with InvalidPDA.           *)
C1_WrongAddressRejected ==
  /\ (~Idle /\ Supplied(2) /\ SignedByFirst /\ StateInfo.key # StatePda)
       => last_result = InvalidStateAccount
  /\ (Last("Initialize") /\ Supplied(5) /\ SignedByFirst
      /\ StateInfo.key = StatePda /\ PdaInfo.key # AuthorityPda)
       => last_result = InvalidPDA
  /\ (Last("UpdateMultiplier") /\ Supplied(5) /\ SignedByFirst
      /\ StateInfo.key = StatePda /\ IsInitialized(pre_data)
      /\ FirstKey = AuthorityOf(pre_data) /\ MintInfo.key = MintOf(pre_data)
      /\ PositiveFiniteNormal(last_instruction.new_multiplier)
      /\ PdaInfo.key # AuthorityPda)
       => last_result = InvalidPDA

(* C2: an UpdateMultiplier or UpdateAuthority signed by an identity other  *)
(* than the authority of the initialized state record it is given fails    *)
(* with InvalidAuthority, leaves the persisted record as it was and issues *)
(* no delegated call.                                                      *)
C2_NonAuthorityRejected ==
  ((Last("UpdateMultiplier") \/ Last("UpdateAuthority"))
   /\ Supplied(2) /\ SignedByFirst
   /\ IsInitialized(StateInfo.data)
   /\ AuthorityOf(StateInfo.data) # FirstKey)
    => /\ last_result = InvalidAuthority
       /\ state_data = pre_data
       /\ last_invoked = <<>>

C2_Witness ==
  /\ Last("UpdateMultiplier") /\ Supplied(5) /\ SignedByFirst
  /\ StateInfo.key = StatePda
  /\ IsInitialized(pre_data)
  /\ AuthorityOf(pre_data) # FirstKey
  /\ last_result = InvalidAuthority

(* C3, as stated: once the record is initialized, every Initialize fails   *)
(* with AlreadyInitialized and leaves the record unchanged.                *)
C3_EveryLaterInitializeAlreadyInitialized ==
  (Last("Initialize") /\ IsInitialized(pre_data))
    => last_result = AlreadyInitialized /\ state_data = pre_data

(* C3, amended: once the record is initialized, every Initialize fails and *)
(* leaves the record unchanged; it fails with AlreadyInitialized when its  *)
(* payer signed and both supplied addresses are the derived ones.          *)
C3_LaterInitializeFails ==
  (Last("Initialize") /\ IsInitialized(pre_data))
    => /\ last_result # Ok
       /\ state_data = pre_data
       /\ (Supplied(5) /\ SignedByFirst
           /\ StateInfo.key = StatePda /\ PdaInfo.key = AuthorityPda)
            => last_result = AlreadyInitialized

C3_Witness ==
  /\ Last("Initialize") /\ IsInitialized(pre_data)
  /\ last_result = AlreadyInitialized
  /\ state_data = pre_data

(* The case of C4: Initialize on a state account without data, with a      *)
(* signing payer and both supplied addresses the derived ones.             *)
C4_Case ==
  /\ Last("Initialize") /\ Supplied(5) /\ SignedByFirst
  /\ pre_data = <<>>
  /\ StateInfo.key = StatePda /\ PdaInfo.key = AuthorityPda

(* The record C4 describes: 66 bytes, initialized, the authority argument, *)
(* the supplied mint, the bump of the derived signing address.             *)
C4_Record ==
  /\ Len(state_data) = 66
  /\ state_data[1] = 1
  /\ AuthorityOf(state_data) = last_instruction.authority
  /\ MintOf(state_data) = MintInfo.key
  /\ BumpOf(state_data) = AuthorityBump

(* C4, as stated: in that case Initialize succeeds and leaves the record.  *)
C4_InitializeSucceeds ==
  C4_Case => last_result = Ok /\ C4_Record

(* C4, amended: in that case Initialize succeeds and leaves the record     *)
(* when the host carries out the account creation it requests; when the    *)
(* host refuses it, Initialize fails and the account still has no data.    *)
C4_InitializeSucceedsIfCreated ==
  C4_Case =>
    IF last_host.create_account_ok
      THEN last_result = Ok /\ C4_Record
      ELSE last_result # Ok /\ state_data = <<>>

C4_Witness ==
  C4_Case /\ last_result = Ok /\ C4_Record

(* C5: after UpdateAuthority(signer = A, new_authority = B) has succeeded  *)
(* with B # A, and until the next rotation, an UpdateMultiplier on the     *)
(* state record signed by A fails with InvalidAuthority, and one signed by *)
(* B that is otherwise valid (stored mint, derived signing address,        *)
(* positive normal multiplier, delegated call accepted) succeeds.          *)
C5_RotationTakesEffect ==
  (Last("UpdateMultiplier") /\ Supplied(5) /\ SignedByFirst
   /\ StateInfo.key = StatePda
   /\ last_rotation # <<>> /\ last_rotation[1] # last_rotation[2])
    => /\ FirstKey = last_rotation[1] => last_result = InvalidAuthority
       /\ (FirstKey = last_rotation[2]
           /\ MintInfo.key = MintOf(pre_data)
           /\ PdaInfo.key = AuthorityPda
           /\ PositiveFiniteNormal(last_instruction.new_multiplier)
           /\ last_host.update_multiplier_ok)
            => last_result = Ok /\ Len(last_invoked) = 1

C5_Witness ==
  /\ Last("UpdateMultiplier") /\ Supplied(5) /\ SignedByFirst
  /\ StateInfo.key = StatePda
  /\ last_rotation # <<>> /\ last_rotation[1] # last_rotation[2]
  /\ FirstKey = last_rotation[2]
  /\ last_result = Ok /\ Len(last_invoked) = 1

(* C6: UpdateAuthority on the initialized state record, signed by its      *)
(* authority: with the all-zero new_authority it fails with                *)
(* InvalidAuthority and changes nothing; with any other new_authority it   *)
(* succeeds and the persisted record, which the next invocation reads,     *)
(* holds authority = new_authority.                                        *)
C6_UpdateAuthorityZeroOrStored ==
  (Last("UpdateAuthority") /\ Supplied(2) /\ SignedByFirst
   /\ StateInfo.key = StatePda
   /\ IsInitialized(pre_data) /\ FirstKey = AuthorityOf(pre_data))
    => IF last_instruction.new_authority = Pubkey_default
         THEN last_result = InvalidAuthority /\ state_data = pre_data
         ELSE /\ last_result = Ok
              /\ IsInitialized(state_data)
              /\ AuthorityOf(state_data) = last_instruction.new_authority

C6_Witness ==
  /\ Last("UpdateAuthority") /\ Supplied(2) /\ SignedByFirst
  /\ StateInfo.key = StatePda
  /\ IsInitialized(pre_data) /\ FirstKey = AuthorityOf(pre_data)
  /\ last_instruction.new_authority # Pubkey_default
  /\ last_instruction.new_authority # AuthorityOf(pre_data)
  /\ last_result = Ok
  /\ AuthorityOf(state_data) = last_instruction.new_authority

(* C7: whenever the persisted record is initialized, its authority is not  *)
(* the all-zero identity.                                                  *)
C7_AuthorityNeverDefault ==
  IsInitialized(state_data) => AuthorityOf(state_data) # Pubkey_default

(* C8: an UpdateMultiplier that passes the signer, initialization,         *)
(* authority and mint checks and whose multiplier is zero, negative, NaN,  *)
(* infinite or a positive subnormal fails with InvalidMultiplier and       *)
(* issues no delegated call.                                               *)
C8_Case ==
  /\ Last("UpdateMultiplier") /\ Supplied(5) /\ SignedByFirst
  /\ IsInitialized(StateInfo.data)
  /\ AuthorityOf(StateInfo.data) = FirstKey
  /\ MintOf(StateInfo.data) = MintInfo.key
  /\ LET x == last_instruction.new_multiplier
     IN  IsZero(x) \/ IsNegative(x) \/ IsNaN(x) \/ IsInfinite(x) \/ IsSubnormal(x)

C8_BadMultiplierRejected ==
  C8_Case => last_result = InvalidMultiplier /\ last_invoked = <<>>

C8_Witness ==
  /\ C8_Case
  /\ IsSubnormal(last_instruction.new_multiplier)
  /\ ~IsNegative(last_instruction.new_multiplier)
  /\ StateInfo.key = StatePda
  /\ last_result = InvalidMultiplier

(* C9: an UpdateMultiplier on the state record, signed by its authority,   *)
(* with the stored mint, the derived signing address and a positive,       *)
(* finite, normal multiplier issues exactly one delegated call, whose      *)
(* payload is 18 bytes: 43, 1, the little-endian IEEE-754 image of the     *)
(* multiplier, the little-endian two's-complement image of the timestamp.  *)
C9_Case ==
  /\ Last("UpdateMultiplier") /\ Supplied(5) /\ SignedByFirst
  /\ StateInfo.key = StatePda
  /\ IsInitialized(pre_data)
  /\ AuthorityOf(pre_data) = FirstKey
  /\ MintOf(pre_data) = MintInfo.key
  /\ PdaInfo.key = AuthorityPda
  /\ PositiveFiniteNormal(last_instruction.new_multiplier)

C9_PayloadExact ==
  C9_Case =>
    /\ Len(last_invoked) = 1
    /\ LET data == last_invoked[1].instruction.data
       IN  /\ Len(data) = 18
           /\ data[1] = 43
           /\ data[2] = 1
           /\ IsLeF64(SubSeq(data, 3, 10), last_instruction.new_multiplier)
           /\ IsLeI64(SubSeq(data, 11, 18), last_instruction.effective_timestamp)

C9_Witness ==
  /\ C9_Case
  /\ last_instruction.effective_timestamp < 0
  /\ last_instruction.new_multiplier.lo # 0
  /\ last_result = Ok
  /\ Len(last_invoked) = 1
  /\ Len(last_invoked[1].instruction.data) = 18

(* C10: once the record is initialized, no invocation, successful or not,  *)
(* changes its controlled asset: after every invocation the record is      *)
(* still initialized and holds the mint it held before.                    *)
C10_MintImmutable ==
  IsInitialized(pre_data)
    => IsInitialized(state_data) /\ MintOf(state_data) = MintOf(pre_data)

C10_Witness ==
  /\ Last("UpdateAuthority")
  /\ IsInitialized(pre_data)
  /\ last_result = Ok
  /\ state_data # pre_data
  /\ MintOf(state_data) = MintOf(pre_data)

(* C11: the initialized flag of the persisted record goes from false to   *)
(* true only in a successful Initialize, and once true it stays true: so   *)
(* it changes exactly once.                                                *)
C11_InitializedOnce ==
  /\ IsInitialized(pre_data) => IsInitialized(state_data)
  /\ (~IsInitialized(pre_data) /\ IsInitialized(state_data))
       => Last("Initialize") /\ last_result = Ok

C11_Witness ==
  /\ Last("Initialize")
  /\ ~IsInitialized(pre_data)
  /\ IsInitialized(state_data)
  /\ last_result = Ok

(* The delegated update-multiplier calls of the last invocation. *)
IssuedUpdate == Last("UpdateMultiplier") /\ Len(last_invoked) >= 1

(* C12: an initialized persisted record holds the bump derived for the     *)
(* authority seed; every delegated update call is signed with the          *)
(* authority seed and that bump; an UpdateMultiplier that passes the       *)
(* earlier checks on a record holding another bump fails with InvalidPDA,  *)
(* and no UpdateMultiplier on such a record succeeds or issues a call.     *)
C12_BumpIsDerived ==
  /\ IsInitialized(state_data) => BumpOf(state_data) = AuthorityBump
  /\ IssuedUpdate
       => \A i \in 1..Len(last_invoked) :
            last_invoked[i].signers_seeds = <<"proxy_authority", <<AuthorityBump>>>>
  /\ (Last("UpdateMultiplier") /\ Supplied(5)
      /\ IsInitialized(StateInfo.data) /\ BumpOf(StateInfo.data) # AuthorityBump)
       => /\ last_result # Ok
          /\ last_invoked = <<>>
          /\ (SignedByFirst
              /\ AuthorityOf(StateInfo.data) = FirstKey
              /\ MintOf(StateInfo.data) = MintInfo.key
              /\ PositiveFiniteNormal(last_instruction.new_multiplier))
               => last_result = InvalidPDA

C12_Witness ==
  /\ Last("UpdateMultiplier") /\ Supplied(5) /\ SignedByFirst
  /\ IsInitialized(StateInfo.data) /\ BumpOf(StateInfo.data) # AuthorityBump
  /\ PdaInfo.key = AuthorityPda
  /\ last_result = InvalidPDA

(* x > 1.0 *)
GreaterThanOne(x) ==
  /\ x.sign = 0
  /\ ~IsNaN(x)
  /\ \/ x.exponent > 1023
     \/ x.exponent = 1023 /\ (x.hi # 0 \/ x.mid # 0 \/ x.lo # 0)

(* C13: an UpdateMultiplier whose new_multiplier is not greater than 1.0   *)
(* is rejected and issues no delegated call.                               *)
C13_OnlyAboveOne ==
  (Last("UpdateMultiplier") /\ ~GreaterThanOne(last_instruction.new_multiplier))
    => last_result # Ok /\ last_invoked = <<>>

(* The state record the last invocation was given decodes. *)
GivenRecordDecodes ==
  Len(StateInfo.data) = 66 /\ StateInfo.data[1] \in {0, 1}

(* C14: UpdateMultiplier returns the error of the first failing check in   *)
(* the order signer, initialized, authority, mint, multiplier, signing     *)
(* address/bump: MissingRequiredSignature for an unsigned request whatever *)
(* else is wrong, and, for a signed request on a record that decodes,      *)
(* NotInitialized before InvalidAuthority before InvalidMint before        *)
(* InvalidMultiplier before InvalidPDA; with no check failing the          *)
(* delegated call is issued.  A signed request on a record that does not   *)
(* decode fails at the initialized step, with the decoder's error,         *)
(* whatever later check would fail too.                                    *)
C14_FirstFailureWins ==
  (Last("UpdateMultiplier") /\ Supplied(5))
    => /\ ~SignedByFirst => last_result = MissingRequiredSignature
       /\ (SignedByFirst /\ ~GivenRecordDecodes)
            => last_result = BorshIoError
       /\ (SignedByFirst /\ GivenRecordDecodes)
            => IF StateInfo.data[1] = 0
                 THEN last_result = NotInitialized
               ELSE IF AuthorityOf(StateInfo.data) # FirstKey
                 THEN last_result = InvalidAuthority
               ELSE IF MintOf(StateInfo.data) # MintInfo.key
                 THEN last_result = InvalidMint
               ELSE IF ~PositiveFiniteNormal(last_instruction.new_multiplier)
                 THEN last_result = InvalidMultiplier
               ELSE IF PdaInfo.key # AuthorityPda
                       \/ BumpOf(StateInfo.data) # AuthorityBump
                 THEN last_result = InvalidPDA
               ELSE Len(last_invoked) = 1

(* several checks fail at once: authority, mint, multiplier and address *)
C14_Witness ==
  /\ Last("UpdateMultiplier") /\ Supplied(5) /\ SignedByFirst
  /\ StateInfo.key = StatePda
  /\ IsInitialized(pre_data)
  /\ AuthorityOf(pre_data) # FirstKey
  /\ MintOf(pre_data) # MintInfo.key
  /\ ~PositiveFiniteNormal(last_instruction.new_multiplier)
  /\ PdaInfo.key # AuthorityPda
  /\ last_result = InvalidAuthority

(* C15: a delegated update call is issued only by an invocation whose      *)
(* verified signer is the authority stored in the record at the state PDA, *)
(* and only for the mint stored there, whatever account is passed in the   *)
(* state-record position.                                                  *)
C15_OnlyStoredAuthorityUpdates ==
  IssuedUpdate
    => /\ SignedByFirst
       /\ IsInitialized(pre_data)
       /\ FirstKey = AuthorityOf(pre_data)
       /\ \A i \in 1..Len(last_invoked) :
            last_invoked[i].instruction.accounts[1].pubkey = MintOf(pre_data)

(* C16: while no Initialize has succeeded, every UpdateMultiplier and      *)
(* UpdateAuthority made by a verified signer fails with NotInitialized.    *)
C16_NotInitializedBeforeSetup ==
  ((Last("UpdateMultiplier") \/ Last("UpdateAuthority"))
   /\ SignedByFirst /\ ~IsInitialized(pre_data))
    => last_result = NotInitialized

(* C17: every delegated update call goes to the token-extension program    *)
(* with exactly two account references, the controlled asset (writable,    *)
(* not a signer) then the authority PDA (read-only, signer), and is signed *)
(* with the authority seed and the bump of the state record that was read. *)
C17_CallShape ==
  IssuedUpdate
    => /\ Len(last_invoked) = 1
       /\ LET call == last_invoked[1]
          IN  /\ call.instruction.program_id = TOKEN_2022_PROGRAM_ID
              /\ call.instruction.accounts =
                   << [pubkey |-> MintOf(StateInfo.data),
                       is_signer |-> FALSE, is_writable |-> TRUE],
                      [pubkey |-> AuthorityPda,
                       is_signer |-> TRUE, is_writable |-> FALSE] >>
              /\ call.signers_seeds =
                   <<"proxy_authority", <<BumpOf(StateInfo.data)>>>>

C17_Witness ==
  /\ IssuedUpdate
  /\ StateInfo.key = StatePda
  /\ last_result = Ok
  /\ last_invoked[1].instruction.accounts[1].pubkey = MintOf(pre_data)

(* C18: UpdateMultiplier, whether it succeeds or fails, leaves the         *)
(* persisted record as it was, byte for byte.                              *)
C18_UpdateMultiplierWritesNothing ==
  Last("UpdateMultiplier") => state_data = pre_data

C18_Witness ==
  /\ Last("UpdateMultiplier") /\ Supplied(5)
  /\ StateInfo.key = StatePda
  /\ IsInitialized(pre_data)
  /\ last_result = Ok
  /\ Len(last_invoked) = 1
  /\ state_data = pre_data

(* C19, as stated: on a state account without data, Initialize succeeds    *)
(* for every signing payer and every authority argument when both supplied *)
(* addresses are the derived ones.                                         *)
C19_AnyoneInitializes ==
  C4_Case => last_result = Ok

(* C19, amended: it does so when the host carries out the account creation *)
(* it requests, whoever the payer is and whatever the authority argument,  *)
(* and the argument becomes the stored authority.                          *)
C19_AnyoneInitializesIfCreated ==
  (C4_Case /\ last_host.create_account_ok)
    => /\ last_result = Ok
       /\ IsInitialized(state_data)
       /\ AuthorityOf(state_data) = last_instruction.authority

(* a payer installs an authority other than itself *)
C19_Witness ==
  /\ C4_Case
  /\ last_result = Ok
  /\ last_instruction.authority # FirstKey
  /\ last_instruction.authority # Pubkey_default
  /\ AuthorityOf(state_data) = last_instruction.authority

====
